---- MODULE Spec2Model ----
(***************************************************************************)
(* Model of the RAG pipeline of lvanegast/RAG_info:                        *)
(*   src/vectorstore/build_rag_clean.py  ingestion (load, chunk, embed,    *)
(*                                       build index, persist)             *)
(*   src/chat.py                         query loop (embed question,       *)
(*                                       search, assemble context, answer) *)
(* Texts are sequences of one-character strings; offsets are 0-based as in *)
(* Python and converted at the slicing operator.                           *)
(***************************************************************************)
EXTENDS Integers, Sequences, FiniteSets, TLC

VARIABLES
    \* dividir_texto (build_rag_clean.py:74-86), one call
    texto, tamano, overlap, inicio, chunks, inicios, pcd,
    \* ingestion script (build_rag_clean.py, module level)
    pci, leidos, textos, fuentes, doc_i, todos_los_chunks, metadatos,
    lote_i, enviados, embeddings_list, index, faiss_file, chunks_file,
    \* query side (chat.py)
    pcq, k, vector_pre, I_busqueda, contextos_recuperados, contexto,
    pregunta, respuesta_final, salida, entradas

varsDividir == <<texto, tamano, overlap, inicio, chunks, inicios, pcd>>
varsIngesta == <<pci, leidos, textos, fuentes, doc_i, todos_los_chunks,
                 lote_i, enviados, embeddings_list, faiss_file, chunks_file>>
varsAlmacen == <<index, metadatos>>
varsChat    == <<pcq, k, vector_pre, I_busqueda, contextos_recuperados,
                 contexto, pregunta, respuesta_final, salida, entradas>>
vars == <<varsDividir, varsIngesta, varsAlmacen, varsChat>>

----------------------------------------------------------------------------
(* Bounds of the model *)

MaxLen     == 4   \* longest text given to dividir_texto on its own
MaxTamano  == 3   \* largest maximum chunk length L tried
MaxOverlap == 4   \* largest overlap O tried (covers O >= L)
MaxDocs    == 3   \* files found under CARPETA_DOCUMENTOS in one run
MaxN       == 3   \* most vectors in a loaded index
MaxM       == 4   \* most records in a loaded metadata list
MaxK       == 4   \* largest result count k given to buscar_contexto
MaxEntradas == 2  \* lines read by input() in one session

----------------------------------------------------------------------------
(* Python helpers *)

Max(a, b) == IF a >= b THEN a ELSE b
Min(a, b) == IF a <= b THEN a ELSE b

\* s[a:b] for 0 <= a, 0 <= b
Slice(s, a, b) == SubSeq(s, a + 1, Min(b, Len(s)))

Blancos == {" ", "\n"}

RECURSIVE PrimerNoBlanco(_, _)
PrimerNoBlanco(s, i) ==
    IF i > Len(s) THEN i
    ELSE IF s[i] \in Blancos THEN PrimerNoBlanco(s, i + 1) ELSE i

RECURSIVE UltimoNoBlanco(_, _)
UltimoNoBlanco(s, j) ==
    IF j < 1 THEN j
    ELSE IF s[j] \in Blancos THEN UltimoNoBlanco(s, j - 1) ELSE j

\* str.strip()
Strip(s) == SubSeq(s, PrimerNoBlanco(s, 1), UltimoNoBlanco(s, Len(s)))

----------------------------------------------------------------------------
(* dividir_texto, build_rag_clean.py:74-86 *)

\* fin = inicio + tamano
Fin(ini, tam) == ini + tam

SiguienteInicioSinAvance(ini, tam, ovl) == Fin(ini, tam) - ovl

SiguienteInicioSalto(ini, tam, ovl) == Max(Fin(ini, tam) - ovl, ini + 1) + 1

\* inicio = max(fin - overlap, inicio + 1)
SiguienteInicio(ini, tam, ovl) == Max(Fin(ini, tam) - ovl, ini + 1)

RompeAntes(txt, ini, tam) == Fin(ini, tam) >= Len(txt) - 1

\* if fin >= len(texto): break
Rompe(txt, ini, tam) == Fin(ini, tam) >= Len(txt)

\* the whole function: the while loop run to its end
RECURSIVE BucleDividir(_, _, _, _, _)
BucleDividir(txt, tam, ovl, ini, acc) ==
    IF ini < Len(txt)
    THEN LET acc2 == Append(acc, Slice(txt, ini, Fin(ini, tam)))
         IN IF Rompe(txt, ini, tam) THEN acc2
            ELSE BucleDividir(txt, tam, ovl, SiguienteInicio(ini, tam, ovl), acc2)
    ELSE acc

dividir_texto(txt, tam, ovl) == BucleDividir(txt, tam, ovl, 0, <<>>)

\* one iteration of the while loop (lines 78-85)
IterarDividir ==
    /\ pcd = "while"
    /\ inicio < Len(texto)
    /\ chunks' = Append(chunks, Slice(texto, inicio, Fin(inicio, tamano)))
    /\ inicios' = Append(inicios, inicio)
    /\ inicio' = SiguienteInicio(inicio, tamano, overlap)
    /\ pcd' = IF Rompe(texto, inicio, tamano) THEN "return" ELSE "while"
    /\ UNCHANGED <<texto, tamano, overlap>>
    /\ UNCHANGED <<varsIngesta, varsAlmacen, varsChat>>

\* the while condition is false (line 78), fall through to return
SalirDividir ==
    /\ pcd = "while"
    /\ ~(inicio < Len(texto))
    /\ pcd' = "return"
    /\ UNCHANGED <<texto, tamano, overlap, inicio, chunks, inicios>>
    /\ UNCHANGED <<varsIngesta, varsAlmacen, varsChat>>

----------------------------------------------------------------------------
(* Ingestion script, build_rag_clean.py *)

TAMANO     == 1000   \* dividir_texto(texto, tamano=1000, ...)
OVERLAP    == 200    \* dividir_texto(texto, ..., overlap=200)
BATCH_SIZE == 32

Ausente == "ausente"   \* a file that has not been written

\* Sample file contents found under CARPETA_DOCUMENTOS
DocVacio    == <<>>
DocBlanco   == <<" ", "\n">>
DocCorto    == <<" ", "a", "b", " ">>
DocEjemplo  == [n \in 1..(2 * TAMANO) |-> "A"]
\* long enough to need a second embedding batch on its own
DocLargo    == [n \in 1..(TAMANO + (BATCH_SIZE - 1) * (TAMANO - OVERLAP) + 1) |-> "B"]
DocsTxt     == {DocVacio, DocBlanco, DocCorto, DocEjemplo, DocLargo}

\* Sample PDFs, as the sequence of page.extract_text() results
PdfsPaginas == {<<>>, << <<"p", "q">> >>, << <<" ">>, <<>> >>}

\* texto = ""; for page in reader.pages: texto += page.extract_text() + "\n"
RECURSIVE TextoPdf(_)
TextoPdf(paginas) ==
    IF paginas = <<>> THEN <<>>
    ELSE Head(paginas) \o <<"\n">> \o TextoPdf(Tail(paginas))

\* os.path.relpath(archivo, CARPETA_DOCUMENTOS) of the n-th file found
Ruta(n, ext) == <<n, ext>>

\* The embedding service: one fixed-dimension vector per input text, a
\* function of the text alone
Embedding(t) == <<Len(t), Cardinality({n \in DOMAIN t : t[n] \in Blancos})>>

\* cargar_txt: one readable file (lines 37-41)
CargarTxt(d) ==
    /\ pci = "cargar_txt"
    /\ leidos < MaxDocs
    /\ leidos' = leidos + 1
    /\ textos' = Append(textos, d)
    /\ fuentes' = Append(fuentes, Ruta(leidos, "txt"))
    /\ UNCHANGED <<pci, doc_i, todos_los_chunks, metadatos, lote_i, enviados,
                   embeddings_list, index, faiss_file, chunks_file>>
    /\ UNCHANGED <<varsDividir, varsChat>>

\* cargar_txt: open/read raises, the file is reported and skipped (42-43)
ErrorTxt ==
    /\ pci = "cargar_txt"
    /\ leidos < MaxDocs
    /\ leidos' = leidos + 1
    /\ UNCHANGED <<pci, textos, fuentes, doc_i, todos_los_chunks, metadatos,
                   lote_i, enviados, embeddings_list, index, faiss_file,
                   chunks_file>>
    /\ UNCHANGED <<varsDividir, varsChat>>

\* cargar_txt returns; cargar_pdf starts and imports PyPDF2 (line 48)
ImportarPyPDF2 ==
    /\ pci = "cargar_txt"
    /\ pci' = "cargar_pdf"
    /\ UNCHANGED <<leidos, textos, fuentes, doc_i, todos_los_chunks, metadatos,
                   lote_i, enviados, embeddings_list, index, faiss_file,
                   chunks_file>>
    /\ UNCHANGED <<varsDividir, varsChat>>

\* cargar_txt returns; the import in cargar_pdf raises ImportError (60-62)
SinPyPDF2 ==
    /\ pci = "cargar_txt"
    /\ pci' = "verificar"
    /\ UNCHANGED <<leidos, textos, fuentes, doc_i, todos_los_chunks, metadatos,
                   lote_i, enviados, embeddings_list, index, faiss_file,
                   chunks_file>>
    /\ UNCHANGED <<varsDividir, varsChat>>

\* cargar_pdf: one readable PDF (lines 51-57)
CargarPdf(paginas) ==
    /\ pci = "cargar_pdf"
    /\ leidos < MaxDocs
    /\ leidos' = leidos + 1
    /\ textos' = Append(textos, TextoPdf(paginas))
    /\ fuentes' = Append(fuentes, Ruta(leidos, "pdf"))
    /\ UNCHANGED <<pci, doc_i, todos_los_chunks, metadatos, lote_i, enviados,
                   embeddings_list, index, faiss_file, chunks_file>>
    /\ UNCHANGED <<varsDividir, varsChat>>

\* cargar_pdf: PdfReader or extract_text raises, the file is skipped (58-59)
ErrorPdf ==
    /\ pci = "cargar_pdf"
    /\ leidos < MaxDocs
    /\ leidos' = leidos + 1
    /\ UNCHANGED <<pci, textos, fuentes, doc_i, todos_los_chunks, metadatos,
                   lote_i, enviados, embeddings_list, index, faiss_file,
                   chunks_file>>
    /\ UNCHANGED <<varsDividir, varsChat>>

\* cargar_pdf returns
FinCargarPdf ==
    /\ pci = "cargar_pdf"
    /\ pci' = "verificar"
    /\ UNCHANGED <<leidos, textos, fuentes, doc_i, todos_los_chunks, metadatos,
                   lote_i, enviados, embeddings_list, index, faiss_file,
                   chunks_file>>
    /\ UNCHANGED <<varsDividir, varsChat>>

SinDocumentosSigue ==
    /\ pci = "verificar"
    /\ textos = <<>>
    /\ pci' = "dividir"
    /\ UNCHANGED <<leidos, textos, fuentes, doc_i, todos_los_chunks, metadatos,
                   lote_i, enviados, embeddings_list, index, faiss_file,
                   chunks_file>>
    /\ UNCHANGED <<varsDividir, varsChat>>

\* if not textos: exit()   (lines 67-69)
SinDocumentos ==
    /\ pci = "verificar"
    /\ textos = <<>>
    /\ pci' = "exit"
    /\ UNCHANGED <<leidos, textos, fuentes, doc_i, todos_los_chunks, metadatos,
                   lote_i, enviados, embeddings_list, index, faiss_file,
                   chunks_file>>
    /\ UNCHANGED <<varsDividir, varsChat>>

ConDocumentos ==
    /\ pci = "verificar"
    /\ textos # <<>>
    /\ pci' = "dividir"
    /\ UNCHANGED <<leidos, textos, fuentes, doc_i, todos_los_chunks, metadatos,
                   lote_i, enviados, embeddings_list, index, faiss_file,
                   chunks_file>>
    /\ UNCHANGED <<varsDividir, varsChat>>

RECURSIVE AgregarChunksDesdeUno(_, _, _, _)
AgregarChunksDesdeUno(todos, metas, cs, fuente) ==
    IF cs = <<>> THEN <<todos, metas>>
    ELSE LET todos2 == Append(todos, Head(cs))
             metas2 == Append(metas, [chunk_id |-> Len(todos2),
                                      fuente   |-> fuente,
                                      texto    |-> Strip(Head(cs))])
         IN AgregarChunksDesdeUno(todos2, metas2, Tail(cs), fuente)

\* the inner loop of lines 98-104 over the chunks cs of one document:
\* returns <<todos_los_chunks, metadatos>> after it
RECURSIVE AgregarChunks(_, _, _, _)
AgregarChunks(todos, metas, cs, fuente) ==
    IF cs = <<>> THEN <<todos, metas>>
    ELSE LET todos2 == Append(todos, Head(cs))
             metas2 == Append(metas, [chunk_id |-> Len(todos2) - 1,
                                      fuente   |-> fuente,
                                      texto    |-> Strip(Head(cs))])
         IN AgregarChunks(todos2, metas2, Tail(cs), fuente)

\* one iteration of the for loop of line 92 on a document that is empty or
\* whitespace only (lines 94-95)
SaltarDocumento ==
    /\ pci = "dividir"
    /\ doc_i < Len(textos)
    /\ Strip(textos[doc_i + 1]) = <<>>
    /\ doc_i' = doc_i + 1
    /\ UNCHANGED <<pci, leidos, textos, fuentes, todos_los_chunks, metadatos,
                   lote_i, enviados, embeddings_list, index, faiss_file,
                   chunks_file>>
    /\ UNCHANGED <<varsDividir, varsChat>>

\* one iteration of the for loop of line 92 on a document with text (97-104)
DividirDocumento ==
    /\ pci = "dividir"
    /\ doc_i < Len(textos)
    /\ Strip(textos[doc_i + 1]) # <<>>
    /\ LET cs == dividir_texto(textos[doc_i + 1], TAMANO, OVERLAP)
           r  == AgregarChunks(todos_los_chunks, metadatos, cs, fuentes[doc_i + 1])
       IN /\ todos_los_chunks' = r[1]
          /\ metadatos' = r[2]
    /\ doc_i' = doc_i + 1
    /\ UNCHANGED <<pci, leidos, textos, fuentes, lote_i, enviados,
                   embeddings_list, index, faiss_file, chunks_file>>
    /\ UNCHANGED <<varsDividir, varsChat>>

\* the for loop ends; cliente_api = OpenAI(...) succeeds (lines 113-115)
CrearCliente ==
    /\ pci = "dividir"
    /\ doc_i = Len(textos)
    /\ pci' = "embeddings"
    /\ UNCHANGED <<leidos, textos, fuentes, doc_i, todos_los_chunks, metadatos,
                   lote_i, enviados, embeddings_list, index, faiss_file,
                   chunks_file>>
    /\ UNCHANGED <<varsDividir, varsChat>>

\* the for loop ends; OpenAI(...) raises: exit() (lines 116-118)
FallaCliente ==
    /\ pci = "dividir"
    /\ doc_i = Len(textos)
    /\ pci' = "exit"
    /\ UNCHANGED <<leidos, textos, fuentes, doc_i, todos_los_chunks, metadatos,
                   lote_i, enviados, embeddings_list, index, faiss_file,
                   chunks_file>>
    /\ UNCHANGED <<varsDividir, varsChat>>

\* batch_chunks = todos_los_chunks[i:i + BATCH_SIZE]
LoteDesplazado(todos, i) == Slice(todos, i + 1, i + 1 + BATCH_SIZE)

BatchChunks(todos, i) == Slice(todos, i, i + BATCH_SIZE)

\* [data.embedding for data in respuesta.data] of a successful call
BatchEmbeddings(lote) == [n \in 1..Len(lote) |-> Embedding(lote[n])]

\* one iteration of the batch loop, the call succeeds (lines 127-137)
LoteOK ==
    /\ pci = "embeddings"
    /\ lote_i < Len(todos_los_chunks)
    /\ enviados' = Append(enviados, lote_i)
    /\ embeddings_list' = embeddings_list
                            \o BatchEmbeddings(BatchChunks(todos_los_chunks, lote_i))
    /\ lote_i' = lote_i + BATCH_SIZE
    /\ UNCHANGED <<pci, leidos, textos, fuentes, doc_i, todos_los_chunks,
                   metadatos, index, faiss_file, chunks_file>>
    /\ UNCHANGED <<varsDividir, varsChat>>

\* one iteration of the batch loop, the call raises: break (lines 139-143)
LoteFalla ==
    /\ pci = "embeddings"
    /\ lote_i < Len(todos_los_chunks)
    /\ enviados' = Append(enviados, lote_i)
    /\ pci' = "persistir"
    /\ UNCHANGED <<leidos, textos, fuentes, doc_i, todos_los_chunks, metadatos,
                   lote_i, embeddings_list, index, faiss_file, chunks_file>>
    /\ UNCHANGED <<varsDividir, varsChat>>

\* range(0, len(todos_los_chunks), BATCH_SIZE) is exhausted
FinLotes ==
    /\ pci = "embeddings"
    /\ ~(lote_i < Len(todos_los_chunks))
    /\ pci' = "persistir"
    /\ UNCHANGED <<leidos, textos, fuentes, doc_i, todos_los_chunks, metadatos,
                   lote_i, enviados, embeddings_list, index, faiss_file,
                   chunks_file>>
    /\ UNCHANGED <<varsDividir, varsChat>>

\* if len(embeddings) == 0: exit()   (lines 145-149)
SinEmbeddings ==
    /\ pci = "persistir"
    /\ Len(embeddings_list) = 0
    /\ pci' = "exit"
    /\ UNCHANGED <<leidos, textos, fuentes, doc_i, todos_los_chunks, metadatos,
                   lote_i, enviados, embeddings_list, index, faiss_file,
                   chunks_file>>
    /\ UNCHANGED <<varsDividir, varsChat>>

\* index.add(embeddings); write_index; json.dump(metadatos)  (lines 157-165)
Persistir ==
    /\ pci = "persistir"
    /\ Len(embeddings_list) # 0
    /\ index' = embeddings_list
    /\ faiss_file' = embeddings_list
    /\ chunks_file' = metadatos
    /\ pci' = "fin"
    /\ UNCHANGED <<leidos, textos, fuentes, doc_i, todos_los_chunks, metadatos,
                   lote_i, enviados, embeddings_list>>
    /\ UNCHANGED <<varsDividir, varsChat>>

----------------------------------------------------------------------------
(* Query side, chat.py *)

K_DEFECTO == 4   \* buscar_contexto(..., k: int = 4)

None == "None"

\* Sample embedding vectors (dimension 2)
Vecs == {<<0, 0>>, <<2, 0>>, <<0, 1>>}

\* Sample metadata list of m records, as json.load returns it
Metas(m) == [n \in 1..m |-> [chunk_id |-> n - 1,
                             fuente   |-> IF n % 2 = 1 THEN "a.txt" ELSE "b.pdf",
                             texto    |-> "texto" \o ToString(n - 1)]]

\* squared Euclidean distance, the metric of IndexFlatL2
Dist2(a, b) == (a[1] - b[1]) * (a[1] - b[1]) + (a[2] - b[2]) * (a[2] - b[2])

\* I[0] of index.search(vector, kk): the labels of the min(kk, ntotal)
\* nearest rows, nearest first (ties in any order), then -1 up to kk entries
Search(idx, q, kk) ==
    LET n == Len(idx)
        r == Min(kk, n)
        d(p) == Dist2(idx[p + 1], q)
        Cercanos == {J \in [1..r -> 0..(n - 1)] :
                       /\ \A a, b \in 1..r : a < b => J[a] # J[b] /\ d(J[a]) <= d(J[b])
                       /\ \A p \in 0..(n - 1) :
                            (\A a \in 1..r : J[a] # p) => \A a \in 1..r : d(J[a]) <= d(p)}
    IN {[a \in 1..kk |-> IF a <= r THEN J[a] ELSE -1] : J \in Cercanos}

\* f"--- Fuente: {chunk['fuente']} ---\n{chunk['texto']}"
Bloque(chunk) == "--- Fuente: " \o chunk.fuente \o " ---\n" \o chunk.texto

\* if idx >= 0 and idx < len(metadatos)
IdxValido(idx, metas) == idx >= 0 /\ idx < Len(metas)

\* metadatos[idx], negative idx counting from the end
PyItem(lista, idx) == IF idx < 0 THEN lista[Len(lista) + idx + 1] ELSE lista[idx + 1]

RECURSIVE RecuperarSinFiltro(_, _)
RecuperarSinFiltro(I, metas) ==
    IF I = <<>> THEN <<>>
    ELSE <<IF IdxValido(Head(I), metas)
           THEN Bloque(PyItem(metas, Head(I)))
           ELSE Bloque([fuente |-> "", texto |-> ""])>>
         \o RecuperarSinFiltro(Tail(I), metas)

\* the for loop of lines 73-77
RECURSIVE Recuperar(_, _)
Recuperar(I, metas) ==
    IF I = <<>> THEN <<>>
    ELSE (IF IdxValido(Head(I), metas)
          THEN <<Bloque(PyItem(metas, Head(I)))>> ELSE <<>>)
         \o Recuperar(Tail(I), metas)

\* sep.join(partes)
RECURSIVE Join(_, _)
Join(sep, partes) ==
    IF partes = <<>> THEN ""
    ELSE IF Len(partes) = 1 THEN partes[1]
    ELSE partes[1] \o sep \o Join(sep, Tail(partes))

\* buscar_contexto (lines 62-83)
BuscarContexto ==
    /\ pcq = "buscar"
    /\ \E I \in Search(index, vector_pre, k) :
         /\ I_busqueda' = I
         /\ contextos_recuperados' = Recuperar(I, metadatos)
         /\ contexto' = Join("\n\n", Recuperar(I, metadatos))
    /\ pcq' = "generar"
    /\ UNCHANGED <<k, vector_pre, pregunta, respuesta_final, salida, entradas>>
    /\ UNCHANGED <<varsDividir, varsIngesta, varsAlmacen>>

\* Sample lines typed at the prompt
Lineas == { <<"s", "a", "l", "i", "r">>, <<" ", "S", "a", "L", "I", "R", " ">>,
            <<>>, <<" ", " ">>, <<"q">>, <<" ", "S", "a", "l", " ">> }

Salir == <<"s", "a", "l", "i", "r">>

\* str.lower() on the letters of the sample lines
Minuscula(c) ==
    CASE c = "S" -> "s" [] c = "A" -> "a" [] c = "L" -> "l"
      [] c = "I" -> "i" [] c = "R" -> "r" [] OTHER -> c

Lower(s) == [n \in DOMAIN s |-> Minuscula(s[n])]

\* Sample completions and sample exception texts of the chat endpoint
Respuestas == {"respuesta", "no tengo suficiente informacion"}
Errores    == {"Connection error.", "timeout"}

\* the string of line 113
MensajeError(e) ==
    "ERROR al comunicarse con el LLM 'openai/gpt-oss-20b'. "
      \o "Asegurate que este corriendo en LM Studio: " \o e

\* pregunta = input().strip(); 'salir' typed: break  (lines 127-131)
LeerSalir(linea) ==
    /\ pcq = "input"
    /\ entradas < MaxEntradas
    /\ Lower(Strip(linea)) = Salir
    /\ entradas' = entradas + 1
    /\ pregunta' = Strip(linea)
    /\ pcq' = "fin"
    /\ UNCHANGED <<k, vector_pre, I_busqueda, contextos_recuperados, contexto,
                   respuesta_final, salida>>
    /\ UNCHANGED <<varsDividir, varsIngesta, varsAlmacen>>

\* an empty line: continue  (lines 132-133)
LeerVacia(linea) ==
    /\ pcq = "input"
    /\ entradas < MaxEntradas
    /\ Lower(Strip(linea)) # Salir
    /\ Strip(linea) = <<>>
    /\ entradas' = entradas + 1
    /\ pregunta' = Strip(linea)
    /\ UNCHANGED <<pcq, k, vector_pre, I_busqueda, contextos_recuperados,
                   contexto, respuesta_final, salida>>
    /\ UNCHANGED <<varsDividir, varsIngesta, varsAlmacen>>

\* a question: go on to vectorizar_pregunta
LeerPregunta(linea) ==
    /\ pcq = "input"
    /\ entradas < MaxEntradas
    /\ Lower(Strip(linea)) # Salir
    /\ Strip(linea) # <<>>
    /\ entradas' = entradas + 1
    /\ pregunta' = Strip(linea)
    /\ pcq' = "vectorizar"
    /\ UNCHANGED <<k, vector_pre, I_busqueda, contextos_recuperados, contexto,
                   respuesta_final, salida>>
    /\ UNCHANGED <<varsDividir, varsIngesta, varsAlmacen>>

\* vectorizar_pregunta returns the embedding (lines 52-57)
VectorizarOK(q) ==
    /\ pcq = "vectorizar"
    /\ vector_pre' = q
    /\ pcq' = "buscar"
    /\ UNCHANGED <<k, I_busqueda, contextos_recuperados, contexto, pregunta,
                   respuesta_final, salida, entradas>>
    /\ UNCHANGED <<varsDividir, varsIngesta, varsAlmacen>>

VectorizarFallaTermina ==
    /\ pcq = "vectorizar"
    /\ vector_pre' = None
    /\ pcq' = "fin"
    /\ UNCHANGED <<k, I_busqueda, contextos_recuperados, contexto, pregunta,
                   respuesta_final, salida, entradas>>
    /\ UNCHANGED <<varsDividir, varsIngesta, varsAlmacen>>

\* the embedding call raises: vectorizar_pregunta returns None and the loop
\* continues (lines 58-60, 137-138)
VectorizarFalla ==
    /\ pcq = "vectorizar"
    /\ vector_pre' = None
    /\ pcq' = "input"
    /\ UNCHANGED <<k, I_busqueda, contextos_recuperados, contexto, pregunta,
                   respuesta_final, salida, entradas>>
    /\ UNCHANGED <<varsDividir, varsIngesta, varsAlmacen>>

\* generar_respuesta returns the completion (lines 103-111)
GenerarOK(r) ==
    /\ pcq = "generar"
    /\ respuesta_final' = r
    /\ pcq' = "mostrar"
    /\ UNCHANGED <<k, vector_pre, I_busqueda, contextos_recuperados, contexto,
                   pregunta, salida, entradas>>
    /\ UNCHANGED <<varsDividir, varsIngesta, varsAlmacen>>

\* the completion call raises e: the error string is returned (112-113)
GenerarFalla(e) ==
    /\ pcq = "generar"
    /\ respuesta_final' = MensajeError(e)
    /\ pcq' = "mostrar"
    /\ UNCHANGED <<k, vector_pre, I_busqueda, contextos_recuperados, contexto,
                   pregunta, salida, entradas>>
    /\ UNCHANGED <<varsDividir, varsIngesta, varsAlmacen>>

\* print(respuesta_final) and back to input()  (lines 147-150)
Mostrar ==
    /\ pcq = "mostrar"
    /\ salida' = Append(salida, respuesta_final)
    /\ pcq' = "input"
    /\ UNCHANGED <<k, vector_pre, I_busqueda, contextos_recuperados, contexto,
                   pregunta, respuesta_final, entradas>>
    /\ UNCHANGED <<varsDividir, varsIngesta, varsAlmacen>>

----------------------------------------------------------------------------
(* Initial states and specifications *)

RECURSIVE SeqsHasta(_, _)
SeqsHasta(S, n) ==
    IF n = 0 THEN {<<>>}
    ELSE LET menores == SeqsHasta(S, n - 1)
         IN menores \cup {Append(s, x) : s \in {t \in menores : Len(t) = n - 1}, x \in S}

DividirInactivo ==
    /\ texto = <<>> /\ tamano = TAMANO /\ overlap = OVERLAP
    /\ inicio = 0 /\ chunks = <<>> /\ inicios = <<>> /\ pcd = "inactivo"

IngestaInactiva ==
    /\ pci = "inactivo" /\ leidos = 0 /\ textos = <<>> /\ fuentes = <<>>
    /\ doc_i = 0 /\ todos_los_chunks = <<>> /\ lote_i = 0 /\ enviados = <<>>
    /\ embeddings_list = <<>> /\ faiss_file = Ausente /\ chunks_file = Ausente

ChatInactivo ==
    /\ pcq = "inactivo" /\ k = K_DEFECTO /\ vector_pre = None
    /\ I_busqueda = <<>> /\ contextos_recuperados = <<>> /\ contexto = ""
    /\ pregunta = <<>> /\ respuesta_final = None /\ salida = <<>>
    /\ entradas = 0

\* one call dividir_texto(T, L, O), at the first test of the while
InitDividir ==
    /\ texto \in SeqsHasta({"a", " "}, MaxLen)
    /\ tamano \in 1..MaxTamano
    /\ overlap \in 0..MaxOverlap
    /\ inicio = 0 /\ chunks = <<>> /\ inicios = <<>> /\ pcd = "while"
    /\ IngestaInactiva /\ ChatInactivo
    /\ index = <<>> /\ metadatos = <<>>

NextDividir == IterarDividir \/ SalirDividir

SpecDividir == InitDividir /\ [][NextDividir]_vars

\* the loop of dividir_texto is sequential code: it keeps running
SpecDividirFair == SpecDividir /\ WF_vars(NextDividir)

\* the ingestion script after line 33
InitIngesta ==
    /\ pci = "cargar_txt" /\ leidos = 0 /\ textos = <<>> /\ fuentes = <<>>
    /\ doc_i = 0 /\ todos_los_chunks = <<>> /\ lote_i = 0 /\ enviados = <<>>
    /\ embeddings_list = <<>> /\ faiss_file = Ausente /\ chunks_file = Ausente
    /\ index = <<>> /\ metadatos = <<>>
    /\ DividirInactivo /\ ChatInactivo

NextIngesta ==
    \/ \E d \in DocsTxt : CargarTxt(d)
    \/ ErrorTxt
    \/ ImportarPyPDF2
    \/ SinPyPDF2
    \/ \E paginas \in PdfsPaginas : CargarPdf(paginas)
    \/ ErrorPdf
    \/ FinCargarPdf
    \/ SinDocumentos
    \/ ConDocumentos
    \/ SaltarDocumento
    \/ DividirDocumento
    \/ CrearCliente
    \/ FallaCliente
    \/ LoteOK
    \/ LoteFalla
    \/ FinLotes
    \/ SinEmbeddings
    \/ Persistir

SpecIngesta == InitIngesta /\ [][NextIngesta]_vars

\* one call buscar_contexto(vector, index, metadatos, k)
InitBuscar ==
    /\ index \in SeqsHasta(Vecs, MaxN)
    /\ \E m \in 0..MaxM : metadatos = Metas(m)
    /\ k \in 1..MaxK
    /\ vector_pre \in Vecs
    /\ pcq = "buscar"
    /\ I_busqueda = <<>> /\ contextos_recuperados = <<>> /\ contexto = ""
    /\ pregunta = <<>> /\ respuesta_final = None /\ salida = <<>>
    /\ entradas = 0
    /\ DividirInactivo /\ IngestaInactiva

NextBuscar == BuscarContexto

SpecBuscar == InitBuscar /\ [][NextBuscar]_vars

\* chat.py after cargar_base_de_datos (line 42), entering bucle_preguntas
InitChat ==
    /\ index \in SeqsHasta(Vecs, MaxN)
    /\ \E m \in 0..MaxM : metadatos = Metas(m)
    /\ pcq = "input" /\ k = K_DEFECTO /\ vector_pre = None
    /\ I_busqueda = <<>> /\ contextos_recuperados = <<>> /\ contexto = ""
    /\ pregunta = <<>> /\ respuesta_final = None /\ salida = <<>>
    /\ entradas = 0
    /\ DividirInactivo /\ IngestaInactiva

NextChat ==
    \/ \E linea \in Lineas : LeerSalir(linea)
    \/ \E linea \in Lineas : LeerVacia(linea)
    \/ \E linea \in Lineas : LeerPregunta(linea)
    \/ \E q \in Vecs : VectorizarOK(q)
    \/ VectorizarFalla
    \/ BuscarContexto
    \/ \E r \in Respuestas : GenerarOK(r)
    \/ \E e \in Errores : GenerarFalla(e)
    \/ Mostrar

SpecChat == InitChat /\ [][NextChat]_vars

----------------------------------------------------------------------------
(* Properties *)

Creciente(s) == \A a, b \in DOMAIN s : a < b => s[a] < s[b]

\* C1: after a run that wrote faiss.index and chunks.json, the index has as
\* many rows as the metadata file has records, whatever the batch calls did.
C1_FilasIgualRegistros ==
    (faiss_file # Ausente /\ chunks_file # Ausente)
        => Len(faiss_file) = Len(chunks_file)

\* C2: dividir_texto terminates for every text, L >= 1 and O >= 0: the start
\* offsets strictly increase and there are at most len(T) chunks.
C2_Termina ==
    /\ <>(pcd = "return")
    /\ [](Creciente(inicios) /\ Len(chunks) <= Len(texto))

C2_Witness ==
    /\ pcd = "return" /\ overlap >= tamano
    /\ Len(texto) >= 3 /\ Len(chunks) = Len(texto)

\* C3: the chunks returned by dividir_texto cover the input: every position
\* of T lies in [start, start + L) of some chunk, chunk j is the slice of T
\* at its start, and chunks come in increasing start order.
C3_Cobertura ==
    pcd = "return" =>
        /\ Len(chunks) = Len(inicios)
        /\ Creciente(inicios)
        /\ \A j \in DOMAIN chunks :
             chunks[j] = Slice(texto, inicios[j], inicios[j] + tamano)
        /\ \A p \in 0..(Len(texto) - 1) :
             \E j \in DOMAIN inicios : inicios[j] <= p /\ p < inicios[j] + tamano

C3_Witness ==
    /\ pcd = "return" /\ Len(texto) >= 3 /\ Len(chunks) >= 2
    /\ overlap >= 1 /\ overlap < tamano

\* C4 as stated: chunk j+1 begins at min(end of chunk j - O, start of chunk
\* j + 1).
C4_SiguienteEsMin ==
    \A j \in 1..(Len(inicios) - 1) :
        inicios[j + 1] = Min(inicios[j] + tamano - overlap, inicios[j] + 1)

\* C4 amended: chunk j+1 begins at max(end of chunk j - O, start of chunk
\* j + 1), where end of chunk j is start of chunk j + L.
C4_SiguienteEsMax ==
    \A j \in 1..(Len(inicios) - 1) :
        inicios[j + 1] = Max(inicios[j] + tamano - overlap, inicios[j] + 1)

C4_Witness ==
    /\ pcd = "return" /\ Len(inicios) >= 2
    /\ inicios[2] = inicios[1] + tamano - overlap
    /\ inicios[2] > inicios[1] + 1

LongitudesChunks == [j \in DOMAIN todos_los_chunks |-> Len(todos_los_chunks[j])]

EjemploDividido ==
    /\ pci = "dividir" /\ textos = <<DocEjemplo>> /\ doc_i = 1

\* C5 as stated: one document of 2000 identical non-blank characters gives
\* exactly 3 chunks of lengths 1000, 1000 and 200.
C5_Longitudes200 ==
    EjemploDividido => LongitudesChunks = <<1000, 1000, 200>>

\* C5 amended: one document of 2000 identical non-blank characters gives
\* exactly 3 chunks of lengths 1000, 1000 and 400 (starts 0, 800, 1600).
C5_Longitudes400 ==
    EjemploDividido => LongitudesChunks = <<1000, 1000, 400>>

C5_Witness == EjemploDividido /\ Len(todos_los_chunks) = 3

PosValidas == {p \in DOMAIN I_busqueda :
                  I_busqueda[p] >= 0 /\ I_busqueda[p] < Len(metadatos)}

\* C6: buscar_contexto fabricates nothing: every block is the block of a
\* metadata record whose position the search returned and that lies in
\* [0, len(metadatos)); other positions (the -1 sentinel) give no block; at
\* most min(k, n) blocks.
C6_SinFabricar ==
    pcq = "generar" =>
        /\ Len(contextos_recuperados) = Cardinality(PosValidas)
        /\ \A j \in DOMAIN contextos_recuperados :
             \E p \in PosValidas :
                contextos_recuperados[j] = Bloque(metadatos[I_busqueda[p] + 1])
        /\ Len(contextos_recuperados) <= Min(k, Len(index))

C6_Witness ==
    /\ pcq = "generar" /\ k = 4 /\ Len(index) = 2
    /\ I_busqueda[3] = -1
    /\ Len(contextos_recuperados) = 2

EnviadosEnOrden == enviados = [j \in 1..Len(enviados) |-> (j - 1) * BATCH_SIZE]

PrefijoDeEmbeddings ==
    /\ Len(embeddings_list) <= Len(todos_los_chunks)
    /\ \A j \in DOMAIN embeddings_list :
         embeddings_list[j] = Embedding(todos_los_chunks[j])

\* every batch sent so far succeeded, or the last one failed and the loop
\* is over
LotesGuardados ==
    \/ Len(embeddings_list) = Min(Len(enviados) * BATCH_SIZE, Len(todos_los_chunks))
    \/ /\ Len(enviados) >= 1
       /\ Len(embeddings_list) = (Len(enviados) - 1) * BATCH_SIZE
       /\ pci # "embeddings"

\* C7: batches go out one at a time in chunk order; after a failed batch no
\* later batch is sent and earlier vectors are kept: the vector list is the
\* embeddings of a prefix of the chunk list, vector i for chunk i.
C7_PrefijoAlineado ==
    /\ [](EnviadosEnOrden /\ PrefijoDeEmbeddings /\ LotesGuardados)
    /\ [][pci # "embeddings" =>
            (enviados' = enviados /\ embeddings_list' = embeddings_list)]_vars

C7_Witness ==
    /\ pci = "persistir" /\ Len(enviados) = 2
    /\ Len(embeddings_list) = BATCH_SIZE
    /\ Len(todos_los_chunks) > BATCH_SIZE

\* C8: a run over an empty document set aborts and writes no index file;
\* the index and metadata files are written only in runs that produced at
\* least one embedding vector.
C8_SoloConEmbeddings ==
    /\ (faiss_file # Ausente \/ chunks_file # Ausente)
         => (Len(embeddings_list) >= 1 /\ pci = "fin")
    /\ (textos = <<>> /\ pci \notin {"cargar_txt", "cargar_pdf", "verificar"})
         => (pci = "exit" /\ faiss_file = Ausente /\ chunks_file = Ausente)
    /\ pci = "exit" => (faiss_file = Ausente /\ chunks_file = Ausente)

C8_Witness ==
    /\ pci = "exit" /\ textos = <<>> /\ leidos >= 1 /\ faiss_file = Ausente

EsMensajeError(s) == \E e \in Errores : s = MensajeError(e)

\* C9: no failure of an external call ends the query loop: a failed question
\* embedding abandons the query without retrieval or generation and goes
\* back to input; a failed completion yields an error-marked string that is
\* shown as the answer before going back to input; the loop ends only on
\* the command 'salir'.
C9_BucleContinua ==
    [][ /\ (pcq = "vectorizar" /\ vector_pre' = None) =>
              /\ pcq' = "input"
              /\ UNCHANGED <<I_busqueda, contextos_recuperados, contexto,
                             respuesta_final, salida>>
        /\ pcq = "generar" =>
              /\ pcq' = "mostrar"
              /\ respuesta_final' \in Respuestas \/ EsMensajeError(respuesta_final')
        /\ pcq = "mostrar" =>
              /\ pcq' = "input"
              /\ salida' = Append(salida, respuesta_final)
        /\ (pcq' = "fin" /\ pcq # "fin") =>
              /\ pcq = "input"
              /\ Lower(pregunta') = Salir
      ]_vars

C9_Witness ==
    /\ pcq = "input" /\ entradas = 2 /\ vector_pre = None
    /\ Len(salida) = 1 /\ EsMensajeError(salida[1])

\* the <<fuente, chunk>> pairs of the first n documents, in order
RECURSIVE ChunksDeDocumentos(_)
ChunksDeDocumentos(n) ==
    IF n = 0 THEN <<>>
    ELSE LET cs == IF Strip(textos[n]) = <<>> THEN <<>>
                   ELSE dividir_texto(textos[n], TAMANO, OVERLAP)
         IN ChunksDeDocumentos(n - 1) \o [j \in DOMAIN cs |-> <<fuentes[n], cs[j]>>]

\* C10: the record at position i has chunk_id i; blank documents give no
\* chunk and consume no id; each record carries the source of the document
\* its chunk was cut from.
C10_IdsSecuenciales ==
    LET esperado == ChunksDeDocumentos(doc_i)
    IN /\ Len(metadatos) = Len(esperado)
       /\ Len(todos_los_chunks) = Len(esperado)
       /\ \A i \in DOMAIN metadatos :
            /\ metadatos[i].chunk_id = i - 1
            /\ metadatos[i].fuente = esperado[i][1]
            /\ todos_los_chunks[i] = esperado[i][2]

C10_Witness ==
    /\ pci = "dividir" /\ doc_i = 3 /\ Len(textos) = 3
    /\ Strip(textos[1]) # <<>> /\ Strip(textos[2]) = <<>> /\ Strip(textos[3]) # <<>>
    /\ Len(metadatos) >= 4
    /\ metadatos[Len(metadatos)].fuente = fuentes[3]

====
